---- MODULE Spec2Model ----
(***************************************************************************)
(* Model of report_gen.py: the paginated, Team-filtered fetch of a         *)
(* section's tasks (AsanaAPI.fetch_tasks_with_pagination), the four        *)
(* aggregators built on it, and main(), which runs the aggregators one     *)
(* after the other, renders one section (or one error line) for each and   *)
(* posts the message.                                                      *)
(*                                                                         *)
(* Data representation                                                     *)
(*   - a JSON object is a record; a key the object does not carry is a     *)
(*     field the record does not have, and a member that is JSON null is   *)
(*     a field whose value is None: get(key, default) answers the default  *)
(*     for the first and None for the second;                              *)
(*   - the members the program reads without a default or with "or {}"     *)
(*     (created_at, assignee, next_page) behave alike when null and when   *)
(*     missing, and the upstream of the model leaves them out; it always   *)
(*     sends data and custom_fields as lists;                              *)
(*   - a local variable is <<>> while unbound and <<v>> once assigned v;   *)
(*   - a Python dict that is iterated (priority_counts, assignee_counts)   *)
(*     is a sequence of <<key, count>> pairs with distinct keys, in        *)
(*     insertion order;                                                    *)
(*   - a continuation offset is the index of the page it designates;       *)
(*   - an instant of the UTC clock is a number of months since year 0,     *)
(*     the only part of the clock the program ever reads ("%Y-%m");        *)
(*   - a creation timestamp is [year, month, frac]: frac is FALSE for a    *)
(*     string without the fractional seconds the format "%S.%fZ" demands.  *)
(***************************************************************************)
EXTENDS Integers, Sequences, FiniteSets, TLC

VARIABLES
    pages,                   \* upstream: the section's pages, in order
    clock,                   \* upstream: the UTC clock, in months since year 0
    pc,                      \* main: the section being produced
    url,                     \* fetch_tasks_with_pagination: url (NoUrl ends the loop)
    all_tasks,               \* fetch_tasks_with_pagination: all_tasks
    requests,                \* number of GETs issued by the latest fetch so far
    status,                  \* status_code of the last response received
    current_month,           \* get_incoming_tasks_grouped_by_priority: current_month
    pending_tasks,           \* main: pending_tasks
    incoming_priority_tasks, \* main: incoming_priority_tasks
    priority_tasks,          \* main: priority_tasks
    assignee_tasks,          \* main: assignee_tasks
    failed,                  \* the sections whose aggregator raised
    slack_message,           \* main: slack_message, one entry per appended block
    posted                   \* send_slack_message: the text handed to requests.post

vars == <<pages, clock, pc, url, all_tasks, requests, status, current_month,
          pending_tasks, incoming_priority_tasks, priority_tasks, assignee_tasks,
          failed, slack_message, posted>>

----------------------------------------------------------------------------
(* Bounds of the model *)

\* the section holds at most MaxTasks tasks
MaxTasks == 3
\* the upstream serves at most MaxPageSize tasks per page
MaxPageSize == 2
\* the clock passes at most MaxTicks month boundaries during a run
MaxTicks == 1

----------------------------------------------------------------------------
(* Values *)

\* a url is the sequence of its query parameters, opt_fields and then offset if
\* there is one; the empty string is the empty sequence
NoUrl == <<>>
Unbound == <<>>
Bound(v) == <<v>>
\* Python's None, the value of a JSON null; no string of the upstream equals it
None == "None"

team_name == "Engagement"
priority_field == "Priority"

\* December 2024, the month the run starts in
ClockStart == 2024 * 12 + 11

Statuses == {200, 500}

Dec2024 == [year |-> 2024, month |-> 12, frac |-> TRUE]
Jan2025 == [year |-> 2025, month |-> 1, frac |-> TRUE]
NoFraction == [year |-> 2024, month |-> 12, frac |-> FALSE]

Field(n, v) == [name |-> n, display_value |-> v]

TaskA == [custom_fields |-> <<Field("Team", "Engagement"), Field("Priority", "High")>>,
          completed |-> FALSE, created_at |-> Dec2024, assignee |-> [name |-> "Ann"]]
\* two attributes named Priority; unassigned; created in the following month
TaskB == [custom_fields |-> <<Field("Priority", "Low"), Field("Team", "Engagement"),
                              Field("Priority", "High")>>,
          completed |-> FALSE, created_at |-> Jan2025]
\* no attribute named Priority
TaskC == [custom_fields |-> <<Field("Team", "Engagement")>>,
          completed |-> FALSE, created_at |-> Dec2024, assignee |-> [name |-> "Bob"]]
\* another team's task
TaskD == [custom_fields |-> <<Field("Team", "Other"), Field("Priority", "Low")>>,
          completed |-> FALSE, created_at |-> Dec2024, assignee |-> [name |-> "Ann"]]
\* completed; no creation timestamp; the second attribute named Team matches
TaskE == [custom_fields |-> <<Field("Team", "Other"), Field("Team", "Engagement"),
                              Field("Priority", "Low")>>,
          completed |-> TRUE, assignee |-> [name |-> "Bob"]]
\* a Priority attribute without display_value, another whose display_value is
\* null; a timestamp without fraction
TaskF == [custom_fields |-> <<Field("Team", "Engagement"), [name |-> "Priority"],
                              Field("Priority", None)>>,
          completed |-> FALSE, created_at |-> NoFraction, assignee |-> [name |-> "Ann"]]

TaskPool == {TaskA, TaskB, TaskC, TaskD, TaskE, TaskF}

Sections == {"pending", "incoming", "priority", "assignee"}

----------------------------------------------------------------------------
(* Upstream collection API *)

\* the task lists of at most n tasks
RECURSIVE TaskLists(_)
TaskLists(n) ==
    IF n = 0 THEN {<<>>}
    ELSE LET shorter == TaskLists(n - 1)
         IN  shorter \cup {Append(s, t) : s \in {x \in shorter : Len(x) = n - 1},
                                          t \in TaskPool}

\* the pages the upstream cuts a task list into, size tasks per page; an empty
\* section is one empty page
RECURSIVE Paginate(_, _)
Paginate(tasks, size) ==
    IF Len(tasks) <= size THEN <<tasks>>
    ELSE <<SubSeq(tasks, 1, size)>> \o Paginate(SubSeq(tasks, size + 1, Len(tasks)), size)

\* the response to GET u: the page u designates, with the offset of the next one
Response(u, code) ==
    LET i == IF Len(u) = 2 THEN u[2] ELSE 1
    IN  [status_code |-> code,
         json |-> IF i < Len(pages)
                  THEN [data |-> pages[i], next_page |-> [offset |-> i + 1]]
                  ELSE [data |-> pages[i]]]

----------------------------------------------------------------------------
(* Python helpers *)

\* d.get(key, default) on a JSON object: the member's value, None for a null
\* member, and the default only when the object has no such key
Get(d, key, default) == IF key \in DOMAIN d THEN d[key] ELSE default

\* counts[key] = counts.get(key, 0) + 1 on an insertion-ordered dict
RECURSIVE Increment(_, _)
Increment(counts, key) ==
    IF counts = <<>> THEN <<<<key, 1>>>>
    ELSE IF Head(counts)[1] = key
         THEN <<<<key, Head(counts)[2] + 1>>>> \o Tail(counts)
         ELSE <<Head(counts)>> \o Increment(Tail(counts), key)

\* one item put into a list that is sorted by count, descending: before the first
\* item with a strictly smaller count, hence after the items with an equal count
RECURSIVE InsertByCount(_, _)
InsertByCount(sorted, item) ==
    IF sorted = <<>> THEN <<item>>
    ELSE IF Head(sorted)[2] < item[2]
         THEN <<item>> \o sorted
         ELSE <<Head(sorted)>> \o InsertByCount(Tail(sorted), item)

RECURSIVE SortLoop(_, _)
SortLoop(sorted, items) ==
    IF items = <<>> THEN sorted
    ELSE SortLoop(InsertByCount(sorted, Head(items)), Tail(items))

\* a reverse sort that is not stable: items of equal count come out reversed
RECURSIVE InsertByCountUnstable(_, _)
InsertByCountUnstable(sorted, item) ==
    IF sorted = <<>> THEN <<item>>
    ELSE IF Head(sorted)[2] <= item[2]
         THEN <<item>> \o sorted
         ELSE <<Head(sorted)>> \o InsertByCountUnstable(Tail(sorted), item)

RECURSIVE SortLoopUnstable(_, _)
SortLoopUnstable(sorted, items) ==
    IF items = <<>> THEN sorted
    ELSE SortLoopUnstable(InsertByCountUnstable(sorted, Head(items)), Tail(items))

SortedUnstable(items) == SortLoopUnstable(<<>>, items)

\* sorted(counts.items(), key=lambda x: x[1], reverse=True): a stable sort
SortedByCountDesc(items) == SortLoop(<<>>, items)

(* Clock and timestamps *)

\* datetime.utcnow().strftime("%Y-%m")
UtcNowYearMonth(t) == <<t \div 12, (t % 12) + 1>>

\* datetime.strptime(created_at, "%Y-%m-%dT%H:%M:%S.%fZ") raises ValueError
ParseFails(created_at) == ~created_at.frac

\* datetime.strptime(...).strftime("%Y-%m")
TaskYearMonth(created_at) == <<created_at.year, created_at.month>>

----------------------------------------------------------------------------
(* AsanaAPI.fetch_tasks_with_pagination *)

\* a Team filter that looks at the attribute's name only
RECURSIVE FieldsMatchTeamByNameOnly(_)
FieldsMatchTeamByNameOnly(fields) ==
    IF fields = <<>> THEN FALSE
    ELSE IF Get(Head(fields), "name", None) = "Team"
         THEN TRUE
         ELSE FieldsMatchTeamByNameOnly(Tail(fields))

\* the scan of one task's custom fields, ended by the first match (break)
RECURSIVE FieldsMatchTeam(_)
FieldsMatchTeam(fields) ==
    IF fields = <<>> THEN FALSE
    ELSE IF /\ Get(Head(fields), "name", None) = "Team"
            /\ Get(Head(fields), "display_value", None) = team_name
         THEN TRUE
         ELSE FieldsMatchTeam(Tail(fields))

\* for task in tasks: ... all_tasks.append(task)
RECURSIVE FilterTeam(_, _)
FilterTeam(acc, tasks) ==
    IF tasks = <<>> THEN acc
    ELSE FilterTeam(IF FieldsMatchTeam(Get(Head(tasks), "custom_fields", <<>>))
                    THEN Append(acc, Head(tasks))
                    ELSE acc,
                    Tail(tasks))

\* the url of the first request of each aggregator
FirstUrl(section) ==
    CASE section = "pending"  -> <<"completed,custom_fields,assignee.name,created_at">>
      [] section = "incoming" -> <<"custom_fields,created_at">>
      [] section = "priority" -> <<"custom_fields,completed">>
      [] section = "assignee" -> <<"custom_fields,assignee.name,completed">>

\* a fetch that follows the first page only
NextUrlFirstPageOnly(json) == NoUrl

\* the url of the next request, NoUrl when the response carries no next_page
NextUrl(json) ==
    IF "next_page" \in DOMAIN json
    THEN <<"custom_fields,created_at,completed,assignee.name", json.next_page.offset>>
    ELSE NoUrl

\* a fetch that does not look at the status
RequestFailedNever(response) == FALSE

\* if response.status_code != 200: raise
RequestFailed(response) == response.status_code # 200

----------------------------------------------------------------------------
(* The aggregators, each applied to the list the fetch returned *)

\* sum(1 for task in tasks if not task.get("completed", False))
RECURSIVE PendingCount(_)
PendingCount(tasks) ==
    IF tasks = <<>> THEN 0
    ELSE (IF Get(Head(tasks), "completed", FALSE) THEN 0 ELSE 1) + PendingCount(Tail(tasks))

\* for field in task.get("custom_fields", []): if the name is the priority field,
\* count its display value; the scan goes on after a match
RECURSIVE CountPriority(_, _)
CountPriority(counts, fields) ==
    IF fields = <<>> THEN counts
    ELSE CountPriority(IF Get(Head(fields), "name", None) = priority_field
                       THEN Increment(counts, Get(Head(fields), "display_value", "Unknown"))
                       ELSE counts,
                       Tail(fields))

\* the loop of get_incoming_tasks_grouped_by_priority; strptime may raise
RECURSIVE IncomingLoop(_, _, _)
IncomingLoop(counts, tasks, month) ==
    IF tasks = <<>> THEN [raised |-> FALSE, counts |-> counts]
    ELSE LET task == Head(tasks)
         IN  IF "created_at" \notin DOMAIN task
             THEN IncomingLoop(counts, Tail(tasks), month)
             ELSE IF ParseFails(task.created_at)
             THEN [raised |-> TRUE, counts |-> <<>>]
             ELSE IF TaskYearMonth(task.created_at) # month
             THEN IncomingLoop(counts, Tail(tasks), month)
             ELSE IncomingLoop(CountPriority(counts, Get(task, "custom_fields", <<>>)),
                               Tail(tasks), month)

\* the loop of get_tasks_grouped_by_priority
RECURSIVE PriorityLoop(_, _)
PriorityLoop(counts, tasks) ==
    IF tasks = <<>> THEN counts
    ELSE PriorityLoop(IF Get(Head(tasks), "completed", FALSE)
                      THEN counts
                      ELSE CountPriority(counts, Get(Head(tasks), "custom_fields", <<>>)),
                      Tail(tasks))

\* a by-assignee loop that counts the completed tasks too
RECURSIVE AssigneeLoopAllTasks(_, _)
AssigneeLoopAllTasks(counts, tasks) ==
    IF tasks = <<>> THEN counts
    ELSE AssigneeLoopAllTasks(
             Increment(counts, Get(Get(Head(tasks), "assignee", <<>>), "name", "Unassigned")),
             Tail(tasks))

\* the loop of get_tasks_grouped_by_assignee; (task.get("assignee") or {}) is the
\* empty object for a task without assignee
RECURSIVE AssigneeLoop(_, _)
AssigneeLoop(counts, tasks) ==
    IF tasks = <<>> THEN counts
    ELSE AssigneeLoop(IF Get(Head(tasks), "completed", FALSE)
                      THEN counts
                      ELSE Increment(counts,
                                     Get(Get(Head(tasks), "assignee", <<>>), "name", "Unassigned")),
                      Tail(tasks))

----------------------------------------------------------------------------
(* main *)

\* the blocks main appends to slack_message
PendingBlock(n) ==
    [section |-> "pending", kind |-> "section", header |-> <<"Pending Tasks:", n>>,
     lines |-> <<>>]
IncomingBlock(label, items) ==
    [section |-> "incoming", kind |-> "section", header |-> <<"Incoming Tasks", label>>,
     lines |-> IF items = <<>> THEN <<"- 0">> ELSE items]
PriorityBlock(items) ==
    [section |-> "priority", kind |-> "section", header |-> <<"Tasks grouped by Priority:">>,
     lines |-> items]
AssigneeBlock(items) ==
    [section |-> "assignee", kind |-> "section", header |-> <<"Tasks grouped by Assignee:">>,
     lines |-> items]
ErrorLine(section, e) ==
    [section |-> section, kind |-> "error", header |-> <<"Error fetching", e>>,
     lines |-> <<>>]

\* the statement that follows the try statement of a section
AfterTry(section) ==
    CASE section = "pending"  -> "incoming"
      [] section = "incoming" -> "priority"
      [] section = "priority" -> "assignee"
      [] section = "assignee" -> "send"

\* one try statement around the four sections: the first failure ends them all
AfterExceptOneTry(section) == "send"

\* where control goes once the except clause of a section has run
AfterExcept(section) == AfterTry(section)

\* control reaches the try statement of section next (or the send), whose
\* aggregator starts a fetch of its own
Enter(next) ==
    /\ pc' = next
    /\ url' = IF next \in Sections THEN FirstUrl(next) ELSE NoUrl
    /\ all_tasks' = <<>>

\* the aggregator of section raised e: the except clause of its try statement
Except(section, e) ==
    /\ slack_message' = Append(slack_message, ErrorLine(section, e))
    /\ failed' = failed \cup {section}
    /\ Enter(AfterExcept(section))

\* one turn of the loop of fetch_tasks_with_pagination, in the aggregator of pc
Request ==
    /\ pc \in Sections
    /\ url # NoUrl
    /\ \E code \in Statuses :
         LET response == Response(url, code)
         IN  /\ status' = code
             /\ requests' = IF url = FirstUrl(pc) THEN 1 ELSE requests + 1
             /\ IF RequestFailed(response)
                THEN Except(pc, <<"API request failed", code>>)
                ELSE /\ all_tasks' = FilterTeam(all_tasks, Get(response.json, "data", <<>>))
                     /\ url' = NextUrl(response.json)
                     /\ UNCHANGED <<pc, slack_message, failed>>
    /\ UNCHANGED <<pages, clock, current_month, pending_tasks, incoming_priority_tasks,
                   priority_tasks, assignee_tasks, posted>>

\* get_pending_tasks returns, main renders the section
GetPendingTasks ==
    /\ pc = "pending"
    /\ url = NoUrl
    /\ pending_tasks' = Bound(PendingCount(all_tasks))
    /\ slack_message' = Append(slack_message, PendingBlock(PendingCount(all_tasks)))
    /\ Enter(AfterTry("pending"))
    /\ UNCHANGED <<pages, clock, requests, status, current_month, incoming_priority_tasks,
                   priority_tasks, assignee_tasks, failed, posted>>

\* get_incoming_tasks_grouped_by_priority reads the clock, filters and returns
GetIncomingTasksGroupedByPriority ==
    /\ pc = "incoming"
    /\ url = NoUrl
    /\ current_month' = Bound(UtcNowYearMonth(clock))
    /\ LET r == IncomingLoop(<<>>, all_tasks, UtcNowYearMonth(clock))
       IN  IF r.raised
           THEN /\ Except("incoming", <<"ValueError">>)
                /\ UNCHANGED incoming_priority_tasks
           ELSE /\ incoming_priority_tasks' = Bound(SortedByCountDesc(r.counts))
                /\ pc' = "incoming_render"
                /\ UNCHANGED <<url, all_tasks, slack_message, failed>>
    /\ UNCHANGED <<pages, clock, requests, status, pending_tasks, priority_tasks, assignee_tasks,
                   posted>>

\* main reads the clock for the header and renders the incoming section
RenderIncoming ==
    /\ pc = "incoming_render"
    /\ slack_message' = Append(slack_message,
                               IncomingBlock(UtcNowYearMonth(clock), incoming_priority_tasks[1]))
    /\ Enter(AfterTry("incoming"))
    /\ UNCHANGED <<pages, clock, requests, status, current_month, pending_tasks,
                   incoming_priority_tasks, priority_tasks, assignee_tasks, failed, posted>>

\* get_tasks_grouped_by_priority returns, main renders the section
GetTasksGroupedByPriority ==
    /\ pc = "priority"
    /\ url = NoUrl
    /\ priority_tasks' = Bound(PriorityLoop(<<>>, all_tasks))
    /\ slack_message' = Append(slack_message, PriorityBlock(PriorityLoop(<<>>, all_tasks)))
    /\ Enter(AfterTry("priority"))
    /\ UNCHANGED <<pages, clock, requests, status, current_month, pending_tasks,
                   incoming_priority_tasks, assignee_tasks, failed, posted>>

\* get_tasks_grouped_by_assignee returns, main renders the section
GetTasksGroupedByAssignee ==
    /\ pc = "assignee"
    /\ url = NoUrl
    /\ assignee_tasks' = Bound(SortedByCountDesc(AssigneeLoop(<<>>, all_tasks)))
    /\ slack_message' = Append(slack_message,
                               AssigneeBlock(SortedByCountDesc(AssigneeLoop(<<>>, all_tasks))))
    /\ Enter(AfterTry("assignee"))
    /\ UNCHANGED <<pages, clock, requests, status, current_month, pending_tasks,
                   incoming_priority_tasks, priority_tasks, failed, posted>>

\* send_slack_message: the POST; the answer, whatever it is, is only printed and
\* changes nothing in the program
SendSlackMessage ==
    /\ pc = "send"
    /\ posted' = Bound([text |-> <<"*Asana Status*">> \o slack_message])
    /\ pc' = "done"
    /\ UNCHANGED <<pages, clock, url, all_tasks, requests, status, current_month,
                   pending_tasks, incoming_priority_tasks, priority_tasks, assignee_tasks,
                   failed, slack_message>>

\* the UTC clock passes a month boundary while the program runs
Tick ==
    /\ pc # "done"
    /\ clock < ClockStart + MaxTicks
    /\ clock' = clock + 1
    /\ UNCHANGED <<pages, pc, url, all_tasks, requests, status, current_month,
                   pending_tasks, incoming_priority_tasks, priority_tasks, assignee_tasks,
                   failed, slack_message, posted>>

Init ==
    /\ pages \in {Paginate(tasks, size) : tasks \in TaskLists(MaxTasks), size \in 1..MaxPageSize}
    /\ clock = ClockStart
    /\ pc = "pending"
    /\ url = FirstUrl("pending")
    /\ all_tasks = <<>>
    /\ requests = 0
    /\ status = 0
    /\ current_month = Unbound
    /\ pending_tasks = Unbound
    /\ incoming_priority_tasks = Unbound
    /\ priority_tasks = Unbound
    /\ assignee_tasks = Unbound
    /\ failed = {}
    /\ slack_message = <<>>
    /\ posted = Unbound

Next ==
    \/ Request
    \/ GetPendingTasks
    \/ GetIncomingTasksGroupedByPriority
    \/ RenderIncoming
    \/ GetTasksGroupedByPriority
    \/ GetTasksGroupedByAssignee
    \/ SendSlackMessage
    \/ Tick

Spec == Init /\ [][Next]_vars

----------------------------------------------------------------------------
(* What the claims speak of, stated on the upstream's data *)

RECURSIVE Concat(_)
Concat(seqs) == IF seqs = <<>> THEN <<>> ELSE Head(seqs) \o Concat(Tail(seqs))

RECURSIVE SumCounts(_)
SumCounts(items) == IF items = <<>> THEN 0 ELSE Head(items)[2] + SumCounts(Tail(items))

\* every task the upstream holds, page after page
Served == Concat(pages)

\* the task has a custom attribute named Team whose display value is the team name
HasTeam(task) ==
    \E j \in DOMAIN task.custom_fields :
        /\ task.custom_fields[j].name = "Team"
        /\ "display_value" \in DOMAIN task.custom_fields[j]
        /\ task.custom_fields[j].display_value = team_name

TeamIndices == LET served == Served IN {i \in DOMAIN served : HasTeam(served[i])}
OpenTeamIndices == LET served == Served IN {i \in TeamIndices : ~served[i].completed}

\* the positions of the attributes of a task that are named as the priority field
PriorityPositions(task) ==
    {j \in DOMAIN task.custom_fields : task.custom_fields[j].name = priority_field}

\* the group an attribute is counted under
GroupOf(field) == IF "display_value" \in DOMAIN field THEN field.display_value ELSE "Unknown"

\* the group of the first attribute named as the priority field
FirstPriority(task) ==
    LET first == CHOOSE j \in PriorityPositions(task) :
                     \A k \in PriorityPositions(task) : j <= k
    IN  GroupOf(task.custom_fields[first])

AssigneeLabel(task) ==
    IF "assignee" \in DOMAIN task THEN task.assignee.name ELSE "Unassigned"

\* the Team-matching tasks created in the year-month ym
CreatedIn(ym) ==
    LET served == Served
    IN  {i \in TeamIndices : /\ "created_at" \in DOMAIN served[i]
                             /\ served[i].created_at.frac
                             /\ ym = <<served[i].created_at.year, served[i].created_at.month>>}

\* the <<task, attribute>> positions, among the tasks of indices, counted under group
PriorityHits(indices, group) ==
    LET served == Served
    IN  UNION {{<<i, j>> : j \in {m \in PriorityPositions(served[i]) :
                                        GroupOf(served[i].custom_fields[m]) = group}} :
               i \in indices}

Before(p, q) == p[1] < q[1] \/ (p[1] = q[1] /\ p[2] < q[2])

Keys(items) == {items[k][1] : k \in DOMAIN items}

\* the aggregator of pc has its list: the fetch returned without a failure
FetchReturned == pc \in Sections /\ url = NoUrl

SectionOrder == <<"pending", "incoming", "priority", "assignee">>

ResultOf(section) ==
    CASE section = "pending"  -> pending_tasks
      [] section = "incoming" -> incoming_priority_tasks
      [] section = "priority" -> priority_tasks
      [] section = "assignee" -> assignee_tasks

----------------------------------------------------------------------------
(* The claims *)

\* C1: when all the N pages answer 200, the fetch issues exactly N requests, issues
\* no further one, and returns the Team-matching tasks of page 1, then of page 2,
\* ..., each page's tasks in the order served.
C1_PaginationReturnsAllPages ==
    FetchReturned =>
        /\ requests = Len(pages)
        /\ all_tasks = SelectSeq(Served, HasTeam)
        /\ ~ENABLED Request

C1_Witness ==
    /\ FetchReturned
    /\ Len(pages) = 3
    /\ Len(all_tasks) = 2
    /\ ~HasTeam(pages[2][1])

\* C2: a task counts in the result of an aggregator only if it has a Team attribute
\* whose display value is the team name: no count exceeds what the Team-matching
\* tasks alone account for.
C2_OnlyTeamTasksCount ==
    /\ pending_tasks # Unbound => pending_tasks[1] <= Cardinality(TeamIndices)
    /\ incoming_priority_tasks # Unbound =>
         \A k \in DOMAIN incoming_priority_tasks[1] :
             LET item == incoming_priority_tasks[1][k]
             IN  item[2] <= Cardinality(PriorityHits(TeamIndices, item[1]))
    /\ priority_tasks # Unbound =>
         \A k \in DOMAIN priority_tasks[1] :
             LET item == priority_tasks[1][k]
             IN  item[2] <= Cardinality(PriorityHits(TeamIndices, item[1]))
    /\ assignee_tasks # Unbound =>
         \A k \in DOMAIN assignee_tasks[1] :
             LET item == assignee_tasks[1][k]
             IN  item[2] <= Cardinality({i \in TeamIndices : AssigneeLabel(Served[i]) = item[1]})

C2_Witness ==
    /\ pc = "done"
    /\ failed = {}
    /\ Served = <<TaskD, TaskA, TaskD>>
    /\ pending_tasks = Bound(1)
    /\ assignee_tasks = Bound(<<<<"Ann", 1>>>>)

\* C3: a response with a status other than 200, to the first or to a later request,
\* ends the fetch in a failure: its section gets an error line and no result (the
\* tasks of the earlier pages are returned to nobody), and the fetch issues no
\* further request: control is past the section, with the next fetch not begun.
C3_FailureAbortsFetch ==
    (status # 0 /\ status # 200) =>
        /\ slack_message # <<>>
        /\ LET line == slack_message[Len(slack_message)]
           IN  /\ line.kind = "error"
               /\ line.lines = <<>>
               /\ line.section \in failed
               /\ ResultOf(line.section) = Unbound
               /\ \/ pc = AfterTry(line.section)
                  \/ line.section = "assignee" /\ pc = "done"
        /\ all_tasks = <<>>
        /\ requests <= Len(pages)
        /\ pc \in Sections => url = FirstUrl(pc)

C3_Witness ==
    /\ status = 500
    /\ requests = 2
    /\ pc = "incoming"
    /\ HasTeam(pages[1][1])
    /\ pending_tasks = Unbound

\* C4: whichever aggregators fail, main appends exactly one block per section, in
\* the order pending, incoming, priority, assignee: an error line for a section
\* whose aggregator failed, the rendered result for the others; and main reaches
\* the send and ends.
C4_SectionsAreIndependent ==
    /\ \A i \in DOMAIN slack_message :
         /\ i <= Len(SectionOrder)
         /\ slack_message[i].section = SectionOrder[i]
         /\ slack_message[i].kind = "error" <=> SectionOrder[i] \in failed
         /\ slack_message[i].kind = "section" <=> ResultOf(SectionOrder[i]) # Unbound
    /\ pc \in {"send", "done"} => Len(slack_message) = Len(SectionOrder)
    /\ pc = "done" => posted[1].text = <<"*Asana Status*">> \o slack_message

C4_Witness ==
    /\ pc = "done"
    /\ failed = {"incoming", "assignee"}
    /\ slack_message[2].header = <<"Error fetching", <<"ValueError">>>>
    /\ slack_message[3].lines = <<<<"Unknown", 1>>, <<None, 1>>>>
    /\ slack_message[1].header = <<"Pending Tasks:", 1>>

\* C5: in both priority histograms a Team-matching task that passes the predicate
\* and has no attribute named as the priority field is counted under "Unknown".
C5_NoPriorityCountsAsUnknown ==
    /\ priority_tasks # Unbound =>
         LET bare == {i \in OpenTeamIndices : PriorityPositions(Served[i]) = {}}
         IN  bare # {} =>
                 \E k \in DOMAIN priority_tasks[1] :
                     /\ priority_tasks[1][k][1] = "Unknown"
                     /\ priority_tasks[1][k][2] >= Cardinality(bare)
    /\ incoming_priority_tasks # Unbound =>
         LET bare == {i \in CreatedIn(current_month[1]) : PriorityPositions(Served[i]) = {}}
         IN  bare # {} =>
                 \E k \in DOMAIN incoming_priority_tasks[1] :
                     /\ incoming_priority_tasks[1][k][1] = "Unknown"
                     /\ incoming_priority_tasks[1][k][2] >= Cardinality(bare)

\* C6: a Team-matching task is included in the incoming-by-priority result if and
\* only if it was created in the year-month the aggregator read from the clock:
\* every such task is counted at least once, nothing else is counted, and a task
\* without creation timestamp does not make the aggregation fail.
C6_IncomingIsThisMonth ==
    /\ incoming_priority_tasks # Unbound =>
         /\ SumCounts(incoming_priority_tasks[1]) >= Cardinality(CreatedIn(current_month[1]))
         /\ \A k \in DOMAIN incoming_priority_tasks[1] :
                LET item == incoming_priority_tasks[1][k]
                IN  item[2] <= Cardinality(PriorityHits(CreatedIn(current_month[1]), item[1]))
    /\ (/\ Len(slack_message) >= 2
        /\ slack_message[2].header = <<"Error fetching", <<"ValueError">>>>) =>
         \E i \in TeamIndices : /\ "created_at" \in DOMAIN Served[i]
                                /\ ~Served[i].created_at.frac

\* C7: by-assignee counts every Team-matching task that is not completed exactly
\* once, under its assignee's name or under "Unassigned", and counts no completed
\* task: the counts sum to the number of Team-matching tasks that are not completed.
C7_AssigneeCountsOpenTasksOnce ==
    assignee_tasks # Unbound =>
        LET items == assignee_tasks[1]
        IN  /\ \A k \in DOMAIN items :
                 /\ items[k][2] > 0
                 /\ items[k][2] =
                        Cardinality({i \in OpenTeamIndices : AssigneeLabel(Served[i]) = items[k][1]})
            /\ \A k, l \in DOMAIN items : items[k][1] = items[l][1] => k = l
            /\ \A i \in OpenTeamIndices : AssigneeLabel(Served[i]) \in Keys(items)
            /\ SumCounts(items) = Cardinality(OpenTeamIndices)

C7_Witness ==
    /\ assignee_tasks = Bound(<<<<"Unassigned", 1>>, <<"Ann", 1>>>>)
    /\ Served = <<TaskE, TaskB, TaskA>>

\* the position at which the scan of the tasks first meets a group
FirstSeenAssignee(key) ==
    CHOOSE i \in OpenTeamIndices :
        /\ AssigneeLabel(Served[i]) = key
        /\ \A m \in OpenTeamIndices : AssigneeLabel(Served[m]) = key => i <= m

FirstSeenIncoming(key) ==
    LET hits == PriorityHits(CreatedIn(current_month[1]), key)
    IN  CHOOSE p \in hits : \A q \in hits : p = q \/ Before(p, q)

\* C8: the lists of incoming-by-priority and of by-assignee are non-increasing by
\* count, and groups of equal count are in the order in which the scan of the
\* fetched tasks first met them.
C8_SortedByCountStable ==
    /\ assignee_tasks # Unbound =>
         LET items == assignee_tasks[1]
         IN  \A k, l \in DOMAIN items :
                 k < l => /\ items[k][2] >= items[l][2]
                          /\ items[k][2] = items[l][2] =>
                                 FirstSeenAssignee(items[k][1]) < FirstSeenAssignee(items[l][1])
    /\ incoming_priority_tasks # Unbound =>
         LET items == incoming_priority_tasks[1]
         IN  \A k, l \in DOMAIN items :
                 k < l => /\ items[k][2] >= items[l][2]
                          /\ items[k][2] = items[l][2] =>
                                 Before(FirstSeenIncoming(items[k][1]),
                                        FirstSeenIncoming(items[l][1]))

C8_Witness ==
    /\ Served = <<TaskB, TaskC, TaskC>>
    /\ assignee_tasks = Bound(<<<<"Bob", 2>>, <<"Unassigned", 1>>>>)
    /\ incoming_priority_tasks = Bound(<<<<"Low", 1>>, <<"High", 1>>>>)

\* C9: a task that passes the predicate and has several attributes named as the
\* priority field adds 1 to one group only, that of the first of them: a group's
\* count is at most the number of passing tasks whose first such attribute has its
\* display value, and the counts sum to at most the number of passing tasks.
C9_FirstPriorityWins ==
    /\ priority_tasks # Unbound =>
         /\ SumCounts(priority_tasks[1]) <= Cardinality(OpenTeamIndices)
         /\ \A k \in DOMAIN priority_tasks[1] :
                priority_tasks[1][k][2] <=
                    Cardinality({i \in OpenTeamIndices :
                                    /\ PriorityPositions(Served[i]) # {}
                                    /\ FirstPriority(Served[i]) = priority_tasks[1][k][1]})
    /\ incoming_priority_tasks # Unbound =>
         /\ SumCounts(incoming_priority_tasks[1]) <= Cardinality(CreatedIn(current_month[1]))
         /\ \A k \in DOMAIN incoming_priority_tasks[1] :
                incoming_priority_tasks[1][k][2] <=
                    Cardinality({i \in CreatedIn(current_month[1]) :
                                    /\ PriorityPositions(Served[i]) # {}
                                    /\ FirstPriority(Served[i]) = incoming_priority_tasks[1][k][1]})

\* C10: the year-month in the header of the incoming section is the year-month the
\* aggregator filtered the tasks by.
C10_HeaderMonthIsFilterMonth ==
    \A i \in DOMAIN slack_message :
        (slack_message[i].section = "incoming" /\ slack_message[i].kind = "section") =>
            slack_message[i].header[2] = current_month[1]

====
